---- MODULE Spec2Model ----
(***************************************************************************)
(* The client-side cart subsystem of the storefront template: the cart     *)
(* reducer, the localStorage adapter, the CartProvider session and the     *)
(* checkout handoff of CartDrawer / CheckoutButton.                        *)
(*                                                                         *)
(* Eight specifications share this module:                                  *)
(*   SpecReducer  cartReducer as a pure function, driven by every action   *)
(*                of its vocabulary with arbitrary (also non-positive)     *)
(*                quantities;                                              *)
(*   SpecStore    persistCart / loadCart and the hydrate effect over       *)
(*                arbitrary contents of the storage slot;                  *)
(*   Spec         the CartProvider session with its storage and the        *)
(*                checkout handoff;                                        *)
(*   SpecCurrency getMajorityCurrency of CartSummary as a pure function    *)
(*                over lists of currency codes;                            *)
(*   SpecRoute    the POST handler of /api/checkout and createCheckout    *)
(*                over request bodies and upstream outcomes;               *)
(*   SpecQuota    the session of Spec over a storage that refuses writes;  *)
(*   SpecTabs     two CartProvider sessions (browser tabs) over one        *)
(*                storage slot;                                            *)
(*   SpecUI       the session driven by the storefront's controls only:    *)
(*                AddToCartButton, the cart steppers, Remove, the drawer.  *)
(***************************************************************************)
EXTENDS Integers, Sequences, FiniteSets, TLC

VARIABLES
    \* ---- SpecReducer
    rItems,         \* the reducer's current state (CartItem[])
    rPrev,          \* the state the last action was applied to
    rAct,           \* the last action applied
    rRun,           \* the current run of Adds of one variant, or NoRun
    \* ---- SpecStore
    sList,          \* the list handed to persistCart
    sRaw,           \* the content of the storage slot
    sReadThrows,    \* localStorage.getItem throws
    sLoaded,        \* what loadCart returned
    sSession,       \* how the session started
    sStep,          \* position in save / load / mount
    \* ---- Spec
    storage,        \* the localStorage slot 'spensit_cart'
    storageMode,    \* "ok", or how localStorage fails in this session
    phase,          \* "mounting" | "hydrating" | "ready"
    items,          \* CartProvider: the reducer state of the last render
    pending,        \* updates dispatched and not yet rendered
    hydrated,       \* a HYDRATE was reduced in this session
    isDrawerOpen,   \* CartProvider: the drawer flag
    comp,           \* the checkout control in use: "CartDrawer" | "CheckoutButton"
    checkoutLoading,\* the control's loading flag
    checkoutError,  \* the control's error message, or NULL
    request,        \* the POST /api/checkout in flight, or NoRequest
    lastResponse,   \* the response the control handled last, or NoResponse
    location,       \* the URL assigned to window.location.href, or NULL
    \* ---- SpecCurrency
    mcItems,        \* the items handed to getMajorityCurrency
    mcResult,       \* what it returned, or NULL before the call
    \* ---- SpecRoute
    rtBody,         \* the JSON body POST /api/checkout received
    rtResult,       \* the route's answer and its upstream request, or NoResult
    \* ---- SpecTabs
    xStorage,       \* the localStorage slot both tabs use
    xPhase,         \* per tab: "mounting" | "hydrating" | "ready"
    xItems,         \* per tab: the reducer state of the last render
    xPending,       \* per tab: updates dispatched and not yet rendered
    xActor,         \* the tab that took the last step, 0 before the first
    \* ---- SpecUI
    uProduct,       \* the product page shown (the variant it offers), or NoPage
    uColor,         \* ProductDetailClient: selectedColor
    uSize,          \* ProductDetailClient: selectedSize
    uStock,         \* availableStock of the current selection
    uQuantity,      \* AddToCartButton: quantity
    uError,         \* AddToCartButton: validationError
    uTimers         \* timeouts of handleAdd not yet fired

rvars == <<rItems, rPrev, rAct, rRun>>
svars == <<sList, sRaw, sReadThrows, sLoaded, sSession, sStep>>
cartvars == <<storage, storageMode, phase, items, pending, hydrated, isDrawerOpen>>
checkoutvars == <<comp, checkoutLoading, checkoutError, request, lastResponse, location>>
mvars == <<cartvars, checkoutvars>>
cvars == <<mcItems, mcResult>>
tvars == <<rtBody, rtResult>>
xvars == <<xStorage, xPhase, xItems, xPending, xActor>>
uvars == <<uProduct, uColor, uSize, uStock, uQuantity, uError, uTimers>>
fvars == <<cvars, tvars, xvars, uvars>>
vars == <<rvars, svars, mvars, fvars>>

(***************************************************************************)
(* Values                                                                  *)
(***************************************************************************)

\* JavaScript's null and undefined: values distinct from every string of the model.
NULL == "%null%"
UNDEFINED == "%undefined%"

\* The variables of each specification at rest, for the other specifications.
RIdle ==
    /\ rItems = << >>
    /\ rPrev = << >>
    /\ rAct = [type |-> "NONE"]
    /\ rRun = [kind |-> "none"]

SIdle ==
    /\ sList = << >>
    /\ sRaw = [present |-> FALSE]
    /\ sReadThrows = FALSE
    /\ sLoaded = [kind |-> "array", elems |-> << >>]
    /\ sSession = "none"
    /\ sStep = "idle"

MIdle ==
    /\ storage = [present |-> FALSE]
    /\ storageMode = "ok"
    /\ phase = "none"
    /\ items = << >>
    /\ pending = << >>
    /\ hydrated = FALSE
    /\ isDrawerOpen = FALSE
    /\ comp = "none"
    /\ checkoutLoading = FALSE
    /\ checkoutError = NULL
    /\ request = [sent |-> FALSE]
    /\ lastResponse = [kind |-> "none"]
    /\ location = NULL

CIdle ==
    /\ mcItems = << >>
    /\ mcResult = NULL

TIdle ==
    /\ rtBody = [kind |-> "undefined"]
    /\ rtResult = [done |-> FALSE]

XIdle ==
    /\ xStorage = [present |-> FALSE]
    /\ xPhase = << >>
    /\ xItems = << >>
    /\ xPending = << >>
    /\ xActor = 0

UIdle ==
    /\ uProduct = "none"
    /\ uColor = NULL
    /\ uSize = NULL
    /\ uStock = 0
    /\ uQuantity = 1
    /\ uError = NULL
    /\ uTimers = 0

FIdle ==
    /\ CIdle
    /\ TIdle
    /\ XIdle
    /\ UIdle

\* Bound of the model: the largest quantity a line item reaches.
MaxQty == 2

\* Variant identities: the first two differ in the colour only, the third
\* differs from the first in the product and the size.
Variants ==
    { [productId |-> "p1", color |-> NULL, size |-> NULL],
      [productId |-> "p1", color |-> "Black", size |-> NULL],
      [productId |-> "p2", color |-> NULL, size |-> "M"] }

\* Display snapshots a caller may supply with an Add.
Displays ==
    { [name |-> "Tee", price |-> 10, currency |-> "USD", image |-> "tee.png"],
      [name |-> "Tee2", price |-> 999, currency |-> "EUR", image |-> ""] }

\* Quantities a caller may pass to addItem / updateQuantity (number, unvalidated).
QtyInputs == (0 - 1) .. MaxQty

\* interface CartItem, in the key order of the object literal that builds it.
CartItem(v, d, q) ==
    [ productId |-> v.productId, name |-> d.name, price |-> d.price,
      currency |-> d.currency, image |-> d.image,
      color |-> v.color, size |-> v.size, quantity |-> q ]

VariantOf(item) ==
    [productId |-> item.productId, color |-> item.color, size |-> item.size]

(***************************************************************************)
(* Reducer                                                                 *)
(***************************************************************************)

\* Variant comparison that ignores the colour and the size.
isSameVariantByProduct(a, b) ==
    a.productId = b.productId

isSameVariant(a, b) ==
    a.productId = b.productId /\ a.color = b.color /\ a.size = b.size

\* Array.prototype.findIndex over isSameVariant: the first matching index
\* (1-based), 0 when nothing matches (JavaScript's -1).
findIndex(state, payload) ==
    IF \E i \in 1..Len(state) : isSameVariant(state[i], payload)
    THEN CHOOSE i \in 1..Len(state) :
            /\ isSameVariant(state[i], payload)
            /\ \A j \in 1..(i - 1) : ~isSameVariant(state[j], payload)
    ELSE 0

\* ADD_ITEM that replaces the matching entry by the payload.
addItemOverwrite(state, payload) ==
    LET existing == findIndex(state, payload) IN
    IF existing > 0
    THEN [state EXCEPT ![existing] =
            [payload EXCEPT !.quantity = state[existing].quantity + payload.quantity]]
    ELSE Append(state, payload)

\* ADD_ITEM that always appends.
addItemAppend(state, payload) ==
    Append(state, payload)

\* ADD_ITEM that puts a new variant at the front of the list.
addItemFront(state, payload) ==
    LET existing == findIndex(state, payload) IN
    IF existing > 0
    THEN [state EXCEPT ![existing] =
            [state[existing] EXCEPT !.quantity = state[existing].quantity + payload.quantity]]
    ELSE <<payload>> \o state

reduceAddItem(state, payload) ==
    LET existing == findIndex(state, payload) IN
    IF existing > 0
    THEN [state EXCEPT ![existing] =
            [state[existing] EXCEPT !.quantity = state[existing].quantity + payload.quantity]]
    ELSE Append(state, payload)

\* REMOVE_ITEM that drops only the first entry of the list when anything matches.
removeItemHead(state, payload) ==
    IF findIndex(state, payload) > 0 THEN Tail(state) ELSE state

reduceRemoveItem(state, payload) ==
    SelectSeq(state, LAMBDA item : ~isSameVariant(item, payload))

\* Math.max(1, q)
MathMax(a, b) == IF a >= b THEN a ELSE b

\* UPDATE_QUANTITY that stores the quantity as given.
updateQuantityNoClamp(state, payload) ==
    [i \in 1..Len(state) |->
        IF isSameVariant(state[i], payload)
        THEN [state[i] EXCEPT !.quantity = payload.quantity]
        ELSE state[i]]

reduceUpdateQuantity(state, payload) ==
    [i \in 1..Len(state) |->
        IF isSameVariant(state[i], payload)
        THEN [state[i] EXCEPT !.quantity = MathMax(1, payload.quantity)]
        ELSE state[i]]

\* A reducer whose HYDRATE keeps the current state.
cartReducerHydrateKeeps(state, action) ==
    CASE action.type = "ADD_ITEM" -> reduceAddItem(state, action.payload)
      [] action.type = "REMOVE_ITEM" -> reduceRemoveItem(state, action.payload)
      [] action.type = "UPDATE_QUANTITY" -> reduceUpdateQuantity(state, action.payload)
      [] action.type = "CLEAR_CART" -> << >>
      [] OTHER -> state

cartReducer(state, action) ==
    CASE action.type = "ADD_ITEM" -> reduceAddItem(state, action.payload)
      [] action.type = "REMOVE_ITEM" -> reduceRemoveItem(state, action.payload)
      [] action.type = "UPDATE_QUANTITY" -> reduceUpdateQuantity(state, action.payload)
      [] action.type = "CLEAR_CART" -> << >>
      [] action.type = "HYDRATE" -> action.payload
      [] OTHER -> state

\* The CartAction union.
AddAction(item) == [type |-> "ADD_ITEM", payload |-> item]
RemoveAction(v) == [type |-> "REMOVE_ITEM", payload |-> v]
UpdateAction(v, q) ==
    [type |-> "UPDATE_QUANTITY",
     payload |-> [productId |-> v.productId, color |-> v.color, size |-> v.size,
                  quantity |-> q]]
ClearAction == [type |-> "CLEAR_CART"]
HydrateAction(list) == [type |-> "HYDRATE", payload |-> list]
NoAction == [type |-> "NONE"]

(***************************************************************************)
(* SpecReducer: cartReducer applied to every valid cart                    *)
(*                                                                         *)
(* Init draws the cart the reducer is applied to; one action of the        *)
(* vocabulary is applied to it; a run of Adds of one variant, or the same  *)
(* Remove once more, may follow.                                           *)
(***************************************************************************)

\* Bound of the model: the length of a run of Adds of one variant.
MaxAdds == 2

RECURSIVE CartsOfLen(_)
\* The lists of n line items of pairwise distinct variants, every quantity
\* in 1..MaxQty: the carts a sequence of Adds builds.
CartsOfLen(n) ==
    IF n = 0 THEN { << >> }
    ELSE UNION { { Append(c, CartItem(v, d, q)) :
                     v \in { w \in Variants : findIndex(c, w) = 0 },
                     d \in Displays, q \in 1..MaxQty } :
                 c \in CartsOfLen(n - 1) }

ValidCarts == UNION { CartsOfLen(n) : n \in 0..Cardinality(Variants) }

NoRun == [kind |-> "none"]

RInit ==
    /\ rItems \in ValidCarts
    /\ rPrev = rItems
    /\ rAct = NoAction
    /\ rRun = NoRun
    /\ SIdle
    /\ MIdle
    /\ FIdle

\* What the action starts or continues: a run of Adds of one variant that
\* began on a cart without it, or a Remove repeated on its own result.
NextRun(before, action, run) ==
    CASE action.type = "ADD_ITEM" /\ findIndex(before, action.payload) = 0 ->
            [kind |-> "adds", first |-> action.payload,
             sum |-> action.payload.quantity, adds |-> 1]
      [] action.type = "ADD_ITEM" /\ findIndex(before, action.payload) > 0
            /\ run.kind = "adds" ->
            [run EXCEPT !.sum = @ + action.payload.quantity, !.adds = @ + 1]
      [] action.type = "REMOVE_ITEM" /\ run.kind = "removed" ->
            [run EXCEPT !.times = @ + 1]
      [] action.type = "REMOVE_ITEM" /\ run.kind # "removed" ->
            [kind |-> "removed", once |-> reduceRemoveItem(before, action.payload),
             times |-> 1]
      [] OTHER -> NoRun

RApply(action) ==
    /\ rItems' = cartReducer(rItems, action)
    /\ rPrev' = rItems
    /\ rAct' = action
    /\ rRun' = NextRun(rItems, action, rRun)
    /\ UNCHANGED <<svars, mvars, fvars>>

RAdd ==
    /\ rAct = NoAction
    /\ \E v \in Variants, d \in Displays, q \in QtyInputs :
        RApply(AddAction(CartItem(v, d, q)))

\* One more Add of the variant of the running sequence of Adds.
RAddAgain ==
    /\ rRun.kind = "adds"
    /\ rRun.adds < MaxAdds
    /\ \E d \in Displays, q \in QtyInputs :
        RApply(AddAction(CartItem(VariantOf(rRun.first), d, q)))

RRemove ==
    /\ rAct = NoAction
    /\ \E v \in Variants : RApply(RemoveAction(v))

\* The Remove just applied, applied once more.
RRemoveAgain ==
    /\ rRun.kind = "removed"
    /\ rRun.times = 1
    /\ RApply(rAct)

RSetQuantity ==
    /\ rAct = NoAction
    /\ \E v \in Variants, q \in QtyInputs : RApply(UpdateAction(v, q))

RClear ==
    /\ rAct = NoAction
    /\ RApply(ClearAction)

RNext ==
    RAdd \/ RAddAgain \/ RRemove \/ RRemoveAgain \/ RSetQuantity \/ RClear

SpecReducer == RInit /\ [][RNext]_vars

(***************************************************************************)
(* Claims about the reducer                                                *)
(***************************************************************************)

\* The entries of `list` whose variant identity is that of `v`.
Matching(list, v) == { i \in 1..Len(list) : isSameVariant(list[i], v) }

\* C2. Quantity invariant: every line item of every cart the reducer returns
\* has quantity >= 1; an Add that would store a lower value stores 1.
C2_QuantityFloor ==
    \A i \in 1..Len(rItems) : rItems[i].quantity >= 1

\* C3. Deduplication: after a sequence of Adds of one variant applied to a
\* cart that did not contain it, the list holds exactly one entry for the
\* variant, its quantity is the sum of the added quantities, and its name,
\* price, image and currency are those of the first Add.
C3_Deduplication ==
    rRun.kind = "adds" =>
        /\ Cardinality(Matching(rItems, rRun.first)) = 1
        /\ \A i \in Matching(rItems, rRun.first) :
              /\ rItems[i].quantity = rRun.sum
              /\ rItems[i].name = rRun.first.name
              /\ rItems[i].price = rRun.first.price
              /\ rItems[i].image = rRun.first.image
              /\ rItems[i].currency = rRun.first.currency

\* A second Add of the variant, with another display snapshot, was merged.
C3_Witness ==
    /\ rRun.kind = "adds"
    /\ rRun.adds = 2
    /\ rAct.type = "ADD_ITEM"
    /\ rAct.payload.price # rRun.first.price
    /\ rRun.sum = 2
    /\ Len(rItems) = 2

\* The item with its quantity set aside.
SansQuantity(item) == [item EXCEPT !.quantity = 0]

\* C4. SetQuantity(v, q) sets the matching entry's quantity to max(1, q), so
\* 1 for every q <= 0; the non-matching entries, the entry's other fields, the
\* length and the order are unchanged; with no match the list is unchanged.
C4_SetQuantity ==
    rAct.type = "UPDATE_QUANTITY" =>
        /\ Len(rItems) = Len(rPrev)
        /\ \A i \in 1..Len(rPrev) :
              /\ SansQuantity(rItems[i]) = SansQuantity(rPrev[i])
              /\ i \in Matching(rPrev, rAct.payload) =>
                    /\ rAct.payload.quantity <= 0 => rItems[i].quantity = 1
                    /\ rAct.payload.quantity >= 1 =>
                          rItems[i].quantity = rAct.payload.quantity
              /\ i \notin Matching(rPrev, rAct.payload) =>
                    rItems[i].quantity = rPrev[i].quantity
        /\ Matching(rPrev, rAct.payload) = {} => rItems = rPrev

\* SetQuantity with q <= 0 hit the middle entry of a three-entry cart.
C4_Witness ==
    /\ rAct.type = "UPDATE_QUANTITY"
    /\ rAct.payload.quantity <= 0
    /\ Len(rPrev) = 3
    /\ Matching(rPrev, rAct.payload) = {2}
    /\ rPrev[2].quantity = 2
    /\ rItems[2].quantity = 1

\* `list` without its i-th entry.
Without(list, i) == SubSeq(list, 1, i - 1) \o SubSeq(list, i + 1, Len(list))

\* C5. Removal idempotence: Remove(v) applied twice in a row yields the list
\* of applying it once; Remove of an absent variant leaves the list unchanged;
\* Remove of a present variant excludes exactly that entry and keeps the
\* other entries in their order.
C5_RemoveIdempotent ==
    rAct.type = "REMOVE_ITEM" =>
        /\ Matching(rPrev, rAct.payload) = {} => rItems = rPrev
        /\ \A i \in Matching(rPrev, rAct.payload) : rItems = Without(rPrev, i)
        /\ rRun.kind = "removed" /\ rRun.times = 2 => rItems = rRun.once

\* Remove was applied a second time after it took the middle entry out.
C5_Witness ==
    /\ rAct.type = "REMOVE_ITEM"
    /\ rRun.kind = "removed"
    /\ rRun.times = 2
    /\ Len(rItems) = 2
    /\ Matching(rItems, rAct.payload) = {}
    /\ \E d \in Displays, q \in 1..MaxQty :
          <<rItems[1], CartItem(VariantOf(rAct.payload), d, q), rItems[2]>> \in ValidCarts

(***************************************************************************)
(* Persistent store adapter: JSON text in the localStorage slot            *)
(*                                                                         *)
(* A text is the sequence of its JSON tokens (punctuation "," and ":" left *)
(* out).  The parser covers scalars, flat objects and arrays of scalars    *)
(* and flat objects; any other token sequence is a SyntaxError.            *)
(***************************************************************************)

\* const STORAGE_KEY = 'spensit_cart': the one slot, absent or holding a text.
NoEntry == [present |-> FALSE]
Entry(text) == [present |-> TRUE, text |-> text]

\* The keys of a CartItem in the order JSON.stringify writes them.
ItemKeys ==
    <<"productId", "name", "price", "currency", "image", "color", "size", "quantity">>
NumberKeys == {"price", "quantity"}
NullableKeys == {"color", "size"}

\* The strings and numbers the texts of the model are made of.
Strings ==
    ({ v.productId : v \in Variants } \cup { v.color : v \in Variants }
     \cup { v.size : v \in Variants } \cup { d.name : d \in Displays }
     \cup { d.currency : d \in Displays } \cup { d.image : d \in Displays }
     \cup { ItemKeys[i] : i \in 1..Len(ItemKeys) } \cup { "x" }) \ { NULL }
Numbers == ((0 - 1) .. MaxQty) \cup { d.price : d \in Displays }

\* A string literal and a number literal of a JSON text.
Quote(s) == "\"" \o s \o "\""
IsStringToken(t) == \E s \in Strings : Quote(s) = t
Unquote(t) == CHOOSE s \in Strings : Quote(s) = t
IsNumberToken(t) == \E n \in Numbers : ToString(n) = t
NumberOf(t) == CHOOSE n \in Numbers : ToString(n) = t
IsScalarToken(t) == t = "null" \/ IsNumberToken(t) \/ IsStringToken(t)

\* JSON.stringify of one field value of a CartItem.
stringifyValue(key, value) ==
    IF key \in NumberKeys THEN ToString(value)
    ELSE IF value = NULL THEN "null"
    ELSE Quote(value)

RECURSIVE stringifyMembersSkipNull(_, _)
\* The members of an object, a member whose value is null left out.
stringifyMembersSkipNull(item, k) ==
    IF k > Len(ItemKeys) THEN << >>
    ELSE IF /\ ItemKeys[k] \in DOMAIN item
            /\ (ItemKeys[k] \in NullableKeys => item[ItemKeys[k]] # NULL)
         THEN <<Quote(ItemKeys[k]), stringifyValue(ItemKeys[k], item[ItemKeys[k]])>>
                \o stringifyMembersSkipNull(item, k + 1)
         ELSE stringifyMembersSkipNull(item, k + 1)

RECURSIVE stringifyMembers(_, _)
\* The members of an object from key k on; a key that is not set is left out.
stringifyMembers(item, k) ==
    IF k > Len(ItemKeys) THEN << >>
    ELSE IF ItemKeys[k] \in DOMAIN item
         THEN <<Quote(ItemKeys[k]), stringifyValue(ItemKeys[k], item[ItemKeys[k]])>>
                \o stringifyMembers(item, k + 1)
         ELSE stringifyMembers(item, k + 1)

RECURSIVE stringifyElements(_, _)
stringifyElements(list, i) ==
    IF i > Len(list) THEN << >>
    ELSE <<"{">> \o stringifyMembers(list[i], 1) \o <<"}">>
            \o stringifyElements(list, i + 1)

\* JSON.stringify(items)
JSONstringify(list) ==
    <<"[">> \o stringifyElements(list, 1) \o <<"]">>

\* A parsed scalar, tagged with its JavaScript type.
ScalarValue(t) ==
    IF t = "null" THEN [kind |-> "null"]
    ELSE IF IsNumberToken(t) THEN [kind |-> "number", num |-> NumberOf(t)]
    ELSE [kind |-> "string", str |-> Unquote(t)]

\* The plain value of a scalar token as a field of an object.
FieldValue(t) ==
    IF t = "null" THEN NULL
    ELSE IF IsNumberToken(t) THEN NumberOf(t)
    ELSE Unquote(t)

\* Whether the token is a value of the type CartItem declares for the key.
FieldTyped(key, t) ==
    IF key \in NumberKeys THEN IsNumberToken(t)
    ELSE IF key \in NullableKeys THEN t = "null" \/ IsStringToken(t)
    ELSE IsStringToken(t)

SyntaxError == [ok |-> FALSE]

RECURSIVE parseMembers(_, _, _, _)
\* The members of an object up to its "}": the object as a record, and
\* whether every member read so far is a well-typed field of a CartItem.
parseMembers(toks, i, rec, typed) ==
    IF i > Len(toks) THEN SyntaxError
    ELSE IF toks[i] = "}"
         THEN [ok |-> TRUE, next |-> i + 1,
               val |-> [kind |-> "object", rec |-> rec,
                        item |-> typed /\ DOMAIN rec = { ItemKeys[k] : k \in 1..Len(ItemKeys) }]]
    ELSE IF i + 1 > Len(toks) \/ ~IsStringToken(toks[i]) \/ ~IsScalarToken(toks[i + 1])
         THEN SyntaxError
    ELSE LET key == Unquote(toks[i]) IN
         parseMembers(toks, i + 2,
                      [k \in DOMAIN rec \cup {key} |->
                            IF k = key THEN FieldValue(toks[i + 1]) ELSE rec[k]],
                      typed /\ key \in { ItemKeys[k] : k \in 1..Len(ItemKeys) }
                            /\ FieldTyped(key, toks[i + 1]))

RECURSIVE parseElements(_, _, _)
\* The elements of an array up to its "]".
parseElements(toks, i, elems) ==
    IF i > Len(toks) THEN SyntaxError
    ELSE IF toks[i] = "]"
         THEN [ok |-> TRUE, next |-> i + 1, val |-> [kind |-> "array", elems |-> elems]]
    ELSE IF IsScalarToken(toks[i])
         THEN parseElements(toks, i + 1, Append(elems, ScalarValue(toks[i])))
    ELSE IF toks[i] = "{"
         THEN LET m == parseMembers(toks, i + 1, << >>, TRUE) IN
              IF m.ok THEN parseElements(toks, m.next, Append(elems, m.val))
              ELSE SyntaxError
    ELSE SyntaxError

\* JSON.parse(text): [ok |-> FALSE] when it throws, else the parsed value.
JSONparse(toks) ==
    LET r == IF Len(toks) = 0 THEN SyntaxError
             ELSE IF IsScalarToken(toks[1])
                  THEN [ok |-> TRUE, next |-> 2, val |-> ScalarValue(toks[1])]
             ELSE IF toks[1] = "{" THEN parseMembers(toks, 2, << >>, TRUE)
             ELSE IF toks[1] = "[" THEN parseElements(toks, 2, << >>)
             ELSE SyntaxError
    IN IF r.ok /\ r.next = Len(toks) + 1 THEN [ok |-> TRUE, val |-> r.val]
       ELSE SyntaxError

\* The JavaScript array [].
EmptyArray == [kind |-> "array", elems |-> << >>]

\* persistCart whose write is skipped for the empty list.
persistCartSkipEmpty(slot, list, writeThrows) ==
    IF writeThrows \/ Len(list) = 0 THEN slot ELSE Entry(JSONstringify(list))

\* persistCart whose failed write loses the entry it meant to replace.
persistCartClearOnFail(slot, list, writeThrows) ==
    IF writeThrows THEN [present |-> FALSE] ELSE Entry(JSONstringify(list))

\* persistCart(items): the slot after localStorage.setItem, or unchanged when
\* setItem throws (the catch swallows it).
persistCart(slot, list, writeThrows) ==
    IF writeThrows THEN slot ELSE Entry(JSONstringify(list))

\* loadCart that hands out the text's first element only.
loadCartFirstOnly(slot, readThrows) ==
    IF readThrows \/ ~slot.present \/ Len(slot.text) = 0 THEN EmptyArray
    ELSE LET p == JSONparse(slot.text) IN
         IF ~p.ok THEN EmptyArray
         ELSE IF p.val.kind = "array" /\ Len(p.val.elems) > 1
              THEN [p.val EXCEPT !.elems = <<p.val.elems[1]>>]
              ELSE p.val

\* loadCart(): the value returned (a thrown getItem or JSON.parse is caught;
\* a missing key and the empty string are falsy).  The parsed value is
\* returned as it is: "as CartItem[]" checks nothing at run time.
loadCart(slot, readThrows) ==
    IF readThrows THEN EmptyArray
    ELSE IF ~slot.present \/ Len(slot.text) = 0 THEN EmptyArray
    ELSE LET p == JSONparse(slot.text) IN
         IF p.ok THEN p.val ELSE EmptyArray

\* Whether the value is an array of well-typed CartItems.
IsItemList(val) ==
    /\ val.kind = "array"
    /\ \A i \in 1..Len(val.elems) : val.elems[i].kind = "object" /\ val.elems[i].item

\* The CartItem[] a value of that shape is.
AsItems(val) == [i \in 1..Len(val.elems) |-> val.elems[i].rec]

\* What the CartProvider's hydrate effect makes of the value loadCart
\* returned: `stored.length > 0` dispatches HYDRATE with the value as it is.
\*   "empty"     no dispatch: the session keeps the initial [];
\*   "hydrated"  HYDRATE with a list of CartItems;
\*   "adopted"   HYDRATE with an array that is not a list of CartItems;
\*   "crashed"   a TypeError outside any try: reading .length of null in the
\*               effect, or items.reduce of a string in the next render.
hydrateEffect(stored) ==
    CASE stored.kind = "null" -> "crashed"
      [] stored.kind = "string" -> IF stored.str = "" THEN "empty" ELSE "crashed"
      [] stored.kind = "array" ->
            IF Len(stored.elems) = 0 THEN "empty"
            ELSE IF IsItemList(stored) THEN "hydrated" ELSE "adopted"
      [] OTHER -> "empty"

(***************************************************************************)
(* SpecStore: save, load and the startup hydration over any slot content   *)
(***************************************************************************)

\* A valid list's text cut short: a text JSON.parse rejects.
Truncated(text) == SubSeq(text, 1, Len(text) - 1)

\* What the slot may hold when a session starts: nothing, the text of a
\* valid list, or a text that is no list of line items.
RawContents ==
    { NoEntry }
    \cup { Entry(JSONstringify(c)) : c \in ValidCarts }
    \cup { Entry(Truncated(JSONstringify(c))) : c \in ValidCarts }
    \cup { Entry(<< >>), Entry(<<"oops">>), Entry(<<"null">>), Entry(<<"1">>),
           Entry(<<Quote("x")>>), Entry(<<Quote("")>>), Entry(<<"{", "}">>),
           Entry(<<"[", "1", "]">>), Entry(<<"[", "null", "]">>),
           Entry(<<"[", "{", "}", "]">>),
           Entry(<<"[", "{", Quote("productId"), Quote("p1"),
                   Quote("quantity"), Quote("x"), "}", "]">>) }

SInit ==
    /\ \/ /\ sList \in ValidCarts
          /\ sRaw = NoEntry
          /\ sReadThrows = FALSE
       \/ /\ sList = << >>
          /\ sRaw \in RawContents
          /\ sReadThrows \in BOOLEAN
    /\ sLoaded = EmptyArray
    /\ sSession = "none"
    /\ sStep = "start"
    /\ RIdle
    /\ MIdle
    /\ FIdle

\* save(L) on working storage.
SSave ==
    /\ sStep = "start"
    /\ sRaw = NoEntry
    /\ sRaw' = persistCart(sRaw, sList, FALSE)
    /\ sStep' = "saved"
    /\ UNCHANGED <<sList, sReadThrows, sLoaded, sSession, rvars, mvars, fvars>>

\* load() after that save.
SLoadSaved ==
    /\ sStep = "saved"
    /\ sLoaded' = loadCart(sRaw, sReadThrows)
    /\ sStep' = "reloaded"
    /\ UNCHANGED <<sList, sRaw, sReadThrows, sSession, rvars, mvars, fvars>>

\* The hydrate effect of a starting session: loadCart, then the dispatch.
SMount ==
    /\ sStep = "start"
    /\ sLoaded' = loadCart(sRaw, sReadThrows)
    /\ sSession' = hydrateEffect(sLoaded')
    /\ sStep' = "mounted"
    /\ UNCHANGED <<sList, sRaw, sReadThrows, rvars, mvars, fvars>>

SNext == SSave \/ SLoadSaved \/ SMount

SpecStore == SInit /\ [][SNext]_vars

\* C6. Round-trip persistence: load() after save(L) on working storage
\* returns a list equal to L field for field and in the same order, for every
\* valid line-item list L, the empty one included.
C6_RoundTrip ==
    sStep = "reloaded" =>
        /\ IsItemList(sLoaded)
        /\ AsItems(sLoaded) = sList

\* A three-entry list, with a null and a non-null colour, came back from storage.
C6_Witness ==
    /\ sStep = "reloaded"
    /\ Len(sList) = 3
    /\ sList[1].color = NULL
    /\ sList[2].color # NULL
    /\ sList[2].image = ""
    /\ Len(sLoaded.elems) = 3

\* Whether the slot holds the text of a list of line items and can be read.
SlotWellFormed ==
    /\ ~sReadThrows
    /\ sRaw.present
    /\ JSONparse(sRaw.text).ok
    /\ IsItemList(JSONparse(sRaw.text).val)

\* C7. Fail-open hydration: whatever the slot holds at startup, load() returns
\* a list and the session does not crash; unless the slot holds a list of line
\* items, the session starts with the empty list.
C7_FailOpenHydration ==
    sStep = "mounted" =>
        /\ sLoaded.kind = "array"
        /\ sSession # "crashed"
        /\ ~SlotWellFormed => sSession = "empty"

(***************************************************************************)
(* Spec: the CartProvider session, its storage and the checkout handoff    *)
(*                                                                         *)
(* A click is handled to its end (dispatch, render, persist effect) before *)
(* the next event.  Updates dispatched outside a click (the HYDRATE of the *)
(* mount effects, the clearCart / closeDrawer after the awaited response)  *)
(* wait in `pending` for the next render.  The clicks of a session are     *)
(* taken once it has rendered its hydration and until it navigates away.   *)
(***************************************************************************)

\* The variants the storefront's pages offer, and the product data shown for each.
SessionVariants == { v \in Variants : v.color # NULL \/ v.size # NULL }
Catalog(v) == CHOOSE d \in Displays : (d.currency = "USD") <=> (v.productId = "p1")

\* Quantities the session's callers pass: zero stands for the non-positive ones.
SessionQtyInputs == 0 .. MaxQty

NoRequest == [sent |-> FALSE]
NoResponse == [kind |-> "none"]

\* setIsDrawerOpen(b), queued like a dispatch.
SetDrawer(b) == [type |-> "SET_DRAWER", open |-> b]

ReadThrows == storageMode = "unavailable"
WriteThrows == storageMode \in {"unavailable", "quota"}

RECURSIVE reduceAll(_, _)
\* useReducer: the queued actions reduced in the order they were dispatched.
reduceAll(state, queue) ==
    IF queue = << >> THEN state
    ELSE reduceAll(cartReducer(state, Head(queue)), Tail(queue))

RECURSIVE drawerAfterOpenOnChange(_, _)
\* A drawer flag that is also raised by every cart action.
drawerAfterOpenOnChange(open, queue) ==
    IF queue = << >> THEN open
    ELSE drawerAfterOpenOnChange(
            IF Head(queue).type = "SET_DRAWER" THEN Head(queue).open ELSE TRUE,
            Tail(queue))

RECURSIVE drawerAfter(_, _)
\* useState: the drawer flag after the queued setIsDrawerOpen calls.
drawerAfter(open, queue) ==
    IF queue = << >> THEN open
    ELSE drawerAfter(IF Head(queue).type = "SET_DRAWER" THEN Head(queue).open ELSE open,
                     Tail(queue))

\* Whether the queue changes the items (the reducer returns a new array for
\* every action of its vocabulary, so the [items] effect runs).
ChangesItems(queue) == \E i \in 1..Len(queue) : queue[i].type # "SET_DRAWER"

\* A render of the queued updates without the persist effect.
RenderNoPersist(queue) ==
    /\ items' = reduceAll(items, queue)
    /\ isDrawerOpen' = drawerAfter(isDrawerOpen, queue)
    /\ hydrated' = (hydrated \/ \E i \in 1..Len(queue) : queue[i].type = "HYDRATE")
    /\ storage' = storage
    /\ pending' = << >>

\* A render of the queued updates, and the persist effect when items changed.
Render(queue) ==
    /\ items' = reduceAll(items, queue)
    /\ isDrawerOpen' = drawerAfter(isDrawerOpen, queue)
    /\ hydrated' = (hydrated \/ \E i \in 1..Len(queue) : queue[i].type = "HYDRATE")
    /\ storage' = IF ChangesItems(queue)
                  THEN persistCart(storage, items', WriteThrows)
                  ELSE storage
    /\ pending' = << >>

\* Every quantity stays inside the model's window.
QtyInWindow(list) ==
    \A i \in 1..Len(list) : list[i].quantity >= 0 /\ list[i].quantity <= MaxQty

Init ==
    /\ storage = NoEntry
    /\ storageMode = "ok"
    /\ phase = "mounting"
    /\ items = << >>
    /\ pending = << >>
    /\ hydrated = FALSE
    /\ isDrawerOpen = FALSE
    /\ comp \in {"CartDrawer", "CheckoutButton"}
    /\ checkoutLoading = FALSE
    /\ checkoutError = NULL
    /\ request = NoRequest
    /\ lastResponse = NoResponse
    /\ location = NULL
    /\ RIdle
    /\ SIdle
    /\ FIdle

\* The two effects of the first render, in declaration order: the hydrate
\* effect reads the slot and dispatches HYDRATE, then the persist effect
\* writes the first render's items, the initial [].
MountEffects ==
    /\ phase = "mounting"
    /\ LET stored == loadCart(storage, ReadThrows) IN
       pending' = IF hydrateEffect(stored) = "hydrated"
                  THEN <<HydrateAction(AsItems(stored))>>
                  ELSE << >>
    /\ storage' = persistCart(storage, items, WriteThrows)
    /\ phase' = IF pending' = << >> THEN "ready" ELSE "hydrating"
    /\ UNCHANGED <<storageMode, items, hydrated, isDrawerOpen, checkoutvars, rvars, svars, fvars>>

\* The render of the updates dispatched outside a click.
Flush ==
    /\ phase \in {"hydrating", "ready"}
    /\ pending # << >>
    /\ Render(pending)
    /\ phase' = "ready"
    /\ UNCHANGED <<storageMode, checkoutvars, rvars, svars, fvars>>

\* The page takes clicks: it is mounted and has not navigated away.
Interactive ==
    /\ phase = "ready"
    /\ location = NULL

\* A dispatch from a click handler: rendered before the handler's event ends.
Dispatch(action) ==
    /\ Render(Append(pending, action))
    /\ QtyInWindow(items')
    /\ UNCHANGED <<storageMode, phase, checkoutvars, rvars, svars, fvars>>

addItem ==
    /\ Interactive
    /\ \E v \in SessionVariants, q \in SessionQtyInputs :
        Dispatch(AddAction(CartItem(v, Catalog(v), q)))

removeItem ==
    /\ Interactive
    /\ \E v \in SessionVariants : Dispatch(RemoveAction(v))

updateQuantity ==
    /\ Interactive
    /\ \E v \in SessionVariants, q \in SessionQtyInputs : Dispatch(UpdateAction(v, q))

clearCart ==
    /\ Interactive
    /\ Dispatch(ClearAction)

openDrawer ==
    /\ Interactive
    /\ ~isDrawerOpen
    /\ Dispatch(SetDrawer(TRUE))

closeDrawer ==
    /\ Interactive
    /\ isDrawerOpen
    /\ Dispatch(SetDrawer(FALSE))

\* The page is left (the navigation completes, a reload, the tab closed) and
\* the application starts again over the same storage.
Reload ==
    /\ phase' = "mounting"
    /\ items' = << >>
    /\ pending' = << >>
    /\ hydrated' = FALSE
    /\ isDrawerOpen' = FALSE
    /\ checkoutLoading' = FALSE
    /\ checkoutError' = NULL
    /\ request' = NoRequest
    /\ lastResponse' = NoResponse
    /\ location' = NULL
    /\ UNCHANGED <<storage, storageMode, comp, rvars, svars, fvars>>

(***************************************************************************)
(* Checkout handoff: handleCheckout of CartDrawer and of CheckoutButton    *)
(***************************************************************************)

PaymentHost == "https://spenspay.spensit.com"

\* The redirect URL built from brand_id and link_id.
TempCheckoutUrl(brandId, linkId) ==
    PaymentHost \o "/tempcheckout/" \o brandId \o "/" \o linkId

\* Projection that copies the whole line item into the payload entry.
cartItemsWithPrice(list) ==
    [i \in 1..Len(list) |->
        [product_id |-> list[i].productId, color |-> list[i].color,
         size |-> list[i].size, quantity |-> list[i].quantity,
         price |-> list[i].price]]

\* items.map(item => ({product_id, color, size, quantity}))
cartItemsOf(list) ==
    [i \in 1..Len(list) |->
        [product_id |-> list[i].productId, color |-> list[i].color,
         size |-> list[i].size, quantity |-> list[i].quantity]]

\* A hint taken from the last line item.
currencyOfLast(control, list) ==
    IF Len(list) > 0 THEN list[Len(list)].currency
    ELSE IF control = "CartDrawer" THEN "USD" ELSE UNDEFINED

\* The currency each control attaches: CartDrawer's displayCurrency, and
\* CheckoutButton's currency, undefined for an empty cart.
currencyOf(control, list) ==
    IF Len(list) > 0 THEN list[1].currency
    ELSE IF control = "CartDrawer" THEN "USD" ELSE UNDEFINED

\* JSON.stringify({cart_items, currency}): an undefined currency is left out.
requestBody(cartItems, currency) ==
    IF currency = UNDEFINED THEN [cart_items |-> cartItems]
    ELSE [cart_items |-> cartItems, currency |-> currency]

\* What POST /api/checkout may answer: the fetch rejects, a non-2xx status
\* with a body that may not parse or may lack `error`, or a 2xx status whose
\* data may lack any of checkout_url, link_id and brand_id.
Responses ==
    { [kind |-> "network_error"] }
    \cup { [kind |-> "http", ok |-> FALSE, status |-> st, parses |-> ps, error |-> er] :
            st \in {400, 500}, ps \in {FALSE}, er \in {UNDEFINED} }
    \cup { [kind |-> "http", ok |-> FALSE, status |-> st, parses |-> ps, error |-> er] :
            st \in {400, 500}, ps \in {TRUE},
            er \in {UNDEFINED, "", "Insufficient stock"} }
    \cup { [kind |-> "http", ok |-> TRUE, status |-> 200,
            checkout_url |-> cu, link_id |-> li, brand_id |-> bi] :
            cu \in {UNDEFINED, "https://pay.example/session/1",
                    TempCheckoutUrl("xyz", "abc")},
            li \in {UNDEFINED, "abc"}, bi \in {UNDEFINED, "xyz"} }

Truthy(x) == x # UNDEFINED /\ x # NULL /\ x # ""

Redirected(url) == [redirect |-> TRUE, url |-> url]
Failed(message) == [redirect |-> FALSE, message |-> message]

\* A message for a non-2xx response that leaves the status out.
httpErrorMessageNoStatus(resp) ==
    IF resp.parses /\ Truthy(resp.error) THEN resp.error
    ELSE "Checkout failed"

\* The message thrown for a non-2xx response.
httpErrorMessage(resp) ==
    IF resp.parses /\ Truthy(resp.error) THEN resp.error
    ELSE "Checkout failed (" \o ToString(resp.status) \o ")"

\* CartDrawer.handleCheckout after the await.
drawerOutcome(resp) ==
    IF resp.kind = "network_error" THEN Failed("Failed to fetch")
    ELSE IF ~resp.ok THEN Failed(httpErrorMessage(resp))
    ELSE IF ~Truthy(resp.link_id)
         THEN Failed("No link_id returned from the checkout API.")
    ELSE IF ~Truthy(resp.brand_id)
         THEN Failed("No brand_id returned from the checkout API.")
    ELSE Redirected(TempCheckoutUrl(resp.brand_id, resp.link_id))

\* CheckoutButton.handleCheckout after the await.
buttonOutcome(resp) ==
    IF resp.kind = "network_error" THEN Failed("Failed to fetch")
    ELSE IF ~resp.ok THEN Failed(httpErrorMessage(resp))
    ELSE IF Truthy(resp.checkout_url) THEN Redirected(resp.checkout_url)
    ELSE IF Truthy(resp.link_id) /\ Truthy(resp.brand_id)
         THEN Redirected(TempCheckoutUrl(resp.brand_id, resp.link_id))
    ELSE Failed("No checkout URL or link_id/brand_id returned from the checkout API.")

outcomeOf(control, resp) ==
    IF control = "CartDrawer" THEN drawerOutcome(resp) ELSE buttonOutcome(resp)

\* A main button that is disabled for the empty cart only.
checkoutEnabledNoLoading ==
    Len(items) > 0

\* The checkout button can be clicked.
checkoutEnabled ==
    IF comp = "CartDrawer"
    THEN Len(items) > 0 /\ ~checkoutLoading
    ELSE ~(checkoutLoading \/ Len(items) = 0)

\* The 'Try again' link is rendered.
tryAgainShown ==
    IF comp = "CartDrawer"
    THEN Len(items) > 0 /\ Truthy(checkoutError)
    ELSE Truthy(checkoutError)

\* handleCheckout up to its await: the flags, the payload, the fetch.
handleCheckoutSend ==
    /\ checkoutLoading' = TRUE
    /\ checkoutError' = NULL
    /\ request' = [sent |-> TRUE,
                   body |-> requestBody(cartItemsOf(items), currencyOf(comp, items)),
                   from |-> items]
    /\ lastResponse' = NoResponse
    /\ UNCHANGED <<comp, location, cartvars, rvars, svars, fvars>>

ClickCheckout ==
    /\ Interactive
    /\ checkoutEnabled
    /\ handleCheckoutSend

ClickTryAgain ==
    /\ Interactive
    /\ tryAgainShown
    /\ handleCheckoutSend

\* The end of the try block: clearCart(), closeDrawer() in the drawer, and
\* the assignment to window.location.href.  The two updates are queued.
onRedirect(url) ==
    /\ pending' = pending \o <<ClearAction>>
                        \o (IF comp = "CartDrawer" THEN <<SetDrawer(FALSE)>> ELSE << >>)
    /\ location' = url
    /\ UNCHANGED <<checkoutLoading, checkoutError>>

\* A catch block that also empties the cart.
onFailureClearing(message) ==
    /\ checkoutError' = message
    /\ checkoutLoading' = FALSE
    /\ pending' = pending \o <<ClearAction>>
    /\ UNCHANGED location

\* A catch block that leaves the loading flag set.
onFailureStillLoading(message) ==
    /\ checkoutError' = message
    /\ UNCHANGED <<checkoutLoading, pending, location>>

\* The catch block: the message is kept and the loading flag dropped.
onFailure(message) ==
    /\ checkoutError' = message
    /\ checkoutLoading' = FALSE
    /\ UNCHANGED <<pending, location>>

\* handleCheckout from its await on, for the response that arrives.
HandleResponse ==
    /\ phase = "ready"
    /\ request.sent
    /\ \E resp \in Responses :
        LET out == outcomeOf(comp, resp) IN
        /\ lastResponse' = resp
        /\ IF out.redirect THEN onRedirect(out.url) ELSE onFailure(out.message)
    /\ request' = NoRequest
    /\ UNCHANGED <<storage, storageMode, phase, items, hydrated, isDrawerOpen, comp,
                   rvars, svars, fvars>>

Next ==
    \/ MountEffects
    \/ Flush
    \/ addItem
    \/ removeItem
    \/ updateQuantity
    \/ clearCart
    \/ openDrawer
    \/ closeDrawer
    \/ Reload
    \/ ClickCheckout
    \/ ClickTryAgain
    \/ HandleResponse

Spec == Init /\ [][Next]_vars

(***************************************************************************)
(* Claims about the session and the checkout handoff                       *)
(***************************************************************************)

\* C1. Variant uniqueness: in every reachable state of the session, after the
\* startup Hydrate and after any sequence of Add, Remove, SetQuantity and
\* Clear, the item list holds at most one line item per variant identity
\* (productId, color, size), null included.
C1_VariantUnique ==
    \A i, j \in 1..Len(items) :
        i # j => <<items[i].productId, items[i].color, items[i].size>>
                    # <<items[j].productId, items[j].color, items[j].size>>

\* A hydrated session holds two variants, one of them merged up to MaxQty.
C1_Witness ==
    /\ hydrated
    /\ phase = "ready"
    /\ Len(items) = 2
    /\ items[1].quantity = MaxQty
    /\ items[2].quantity = 1

ForbiddenKeys == {"price", "subtotal", "total_price", "vat"}

C9_EmptyCartGuard ==
    request.sent => Len(request.from) > 0

\* C10. Redirect URL resolution: on a successful response the client uses
\* checkout_url verbatim if present; otherwise, with link_id and brand_id, the
\* URL built from them; only when neither is available does it fail.
C10_RedirectResolution ==
    (lastResponse.kind = "http" /\ lastResponse.ok) =>
        IF Truthy(lastResponse.checkout_url)
        THEN location = lastResponse.checkout_url
        ELSE IF Truthy(lastResponse.link_id) /\ Truthy(lastResponse.brand_id)
             THEN location = TempCheckoutUrl(lastResponse.brand_id, lastResponse.link_id)
             ELSE location = NULL /\ Truthy(checkoutError)

\* C11. Clear-before-navigate: in no reachable state has the navigation to
\* the resolved URL fired while the in-memory list or the persisted list is
\* still non-empty.
C11_ClearBeforeNavigate ==
    location # NULL => (items = << >> /\ storage = Entry(JSONstringify(<< >>)))

Currencies == {"USD", "EUR", "GBP"}

\* Bound of the model: the longest list handed to getMajorityCurrency.
MaxCurrencyItems == 4

RECURSIVE CurrencyLists(_)
\* The lists of n items, each with a currency code.
CurrencyLists(n) ==
    IF n = 0 THEN { << >> }
    ELSE { Append(l, [currency |-> c]) : l \in CurrencyLists(n - 1), c \in Currencies }

\* The position of key c among the entries, 0 if counts has no such key.
keyIndex(counts, c) ==
    IF \E i \in 1..Len(counts) : counts[i].key = c
    THEN CHOOSE i \in 1..Len(counts) : counts[i].key = c
    ELSE 0

\* counts[c] = (counts[c] || 0) + 1
increment(counts, c) ==
    IF keyIndex(counts, c) = 0
    THEN Append(counts, [key |-> c, count |-> 1])
    ELSE [counts EXCEPT ![keyIndex(counts, c)].count = @ + 1]

RECURSIVE countLoop(_, _)
\* for (const item of items) counts[item.currency] = ...
countLoop(list, counts) ==
    IF list = << >> THEN counts
    ELSE countLoop(Tail(list), increment(counts, Head(list).currency))

RECURSIVE pickLoopLast(_, _, _)
\* A scan that also replaces the majority on an equal count.
pickLoopLast(entries, majority, max) ==
    IF entries = << >> THEN majority
    ELSE IF Head(entries).count >= max
         THEN pickLoopLast(Tail(entries), Head(entries).key, Head(entries).count)
         ELSE pickLoopLast(Tail(entries), majority, max)

RECURSIVE pickLoop(_, _, _)
\* for (const [currency, count] of Object.entries(counts)) if (count > max) ...
pickLoop(entries, majority, max) ==
    IF entries = << >> THEN majority
    ELSE IF Head(entries).count > max
         THEN pickLoop(Tail(entries), Head(entries).key, Head(entries).count)
         ELSE pickLoop(Tail(entries), majority, max)

getMajorityCurrency(list) ==
    IF Len(list) = 0 THEN "USD"
    ELSE pickLoop(countLoop(list, << >>), list[1].currency, 0)

CInit ==
    /\ mcItems \in UNION { CurrencyLists(n) : n \in 0..MaxCurrencyItems }
    /\ mcResult = NULL
    /\ RIdle
    /\ SIdle
    /\ MIdle
    /\ TIdle
    /\ XIdle
    /\ UIdle

\* One call of the function on the list drawn at the start.
CallGetMajorityCurrency ==
    /\ mcResult = NULL
    /\ mcResult' = getMajorityCurrency(mcItems)
    /\ UNCHANGED <<mcItems, tvars, xvars, uvars, rvars, svars, mvars>>

CNext ==
    \/ CallGetMajorityCurrency

SpecCurrency == CInit /\ [][CNext]_vars

\* The number of line items of the list with currency c.
CountOf(list, c) == Cardinality({ i \in 1..Len(list) : list[i].currency = c })

\* The first position of currency c in the list.
FirstAt(list, c) ==
    CHOOSE i \in 1..Len(list) :
        list[i].currency = c /\ \A j \in 1..(i - 1) : list[j].currency # c

\* C13. Majority currency: for a non-empty list the result is a currency of
\* the list with the highest line-item count, and among the currencies with
\* that count the one that occurs first in list order; for the empty list it
\* is USD.
C13_MajorityCurrency ==
    mcResult # NULL =>
        IF mcItems = << >> THEN mcResult = "USD"
        ELSE /\ CountOf(mcItems, mcResult) > 0
             /\ \A c \in Currencies :
                   /\ CountOf(mcItems, c) <= CountOf(mcItems, mcResult)
                   /\ (c # mcResult /\ CountOf(mcItems, c) = CountOf(mcItems, mcResult))
                         => FirstAt(mcItems, mcResult) < FirstAt(mcItems, c)

\* The tie [EUR, USD, EUR, USD] has been resolved to EUR.
C13_Witness ==
    /\ mcItems = <<[currency |-> "EUR"], [currency |-> "USD"],
                   [currency |-> "EUR"], [currency |-> "USD"]>>
    /\ mcResult = "EUR"

(***************************************************************************)
(* Further claims about the session, the handoff and the reducer           *)
(***************************************************************************)

\* C14. No re-entrant submission: while a submission is in flight neither
\* the main button nor 'Try again' accepts a click, and no step replaces the
\* request in flight by another one.
C14_NoReentrantSubmission ==
    [][ request.sent =>
            /\ ~checkoutEnabled
            /\ ~tryAgainShown
            /\ (request'.sent => request' = request)
      ]_vars

\* A submission is in flight on a page whose cart is not empty and whose
\* drawer is open.
C14_Witness ==
    /\ request.sent
    /\ checkoutLoading
    /\ Len(items) > 0
    /\ isDrawerOpen
    /\ location = NULL

\* C15. Synchronous persistence: once a cart operation has returned, storage
\* holds the list that results from it; no state between two events has an
\* operation dispatched and its list not yet written.
C15_SynchronousPersistence ==
    (phase = "ready" /\ storageMode = "ok") =>
        storage = Entry(JSONstringify(reduceAll(items, pending)))

\* C16. No write before hydration: while the list loaded at startup waits to
\* be adopted, storage still holds that list; it is never overwritten with
\* the initial empty list.
C16_NoWriteBeforeHydration ==
    \A i \in 1..Len(pending) :
        pending[i].type = "HYDRATE" =>
            storage = Entry(JSONstringify(pending[i].payload))

RECURSIVE itemCountLines(_, _)
\* A count of the line items instead of their units.
itemCountLines(list, sum) ==
    IF list = << >> THEN sum
    ELSE itemCountLines(Tail(list), sum + 1)

RECURSIVE itemCountFold(_, _)
\* items.reduce((sum, item) => sum + item.quantity, sum)
itemCountFold(list, sum) ==
    IF list = << >> THEN sum
    ELSE itemCountFold(Tail(list), sum + Head(list).quantity)

RECURSIVE subtotalFold(_, _)
\* items.reduce((sum, item) => sum + item.price * item.quantity, sum)
subtotalFold(list, sum) ==
    IF list = << >> THEN sum
    ELSE subtotalFold(Tail(list), sum + Head(list).price * Head(list).quantity)

\* The aggregates of the context value, computed in every render.
itemCount == itemCountFold(items, 0)
subtotal == subtotalFold(items, 0)

RECURSIVE TotalOf(_, _)
\* The sum of f over the set S of integers' indices, taken from the largest.
TotalOf(f, S) ==
    IF S = {} THEN 0
    ELSE LET i == CHOOSE k \in S : \A l \in S : l <= k IN
         f[i] + TotalOf(f, S \ {i})

\* C17. Derived aggregates: itemCount is the sum of the quantities and
\* subtotal the sum of price * quantity over the line items of the current
\* list, currencies mixed; both are 0 for the empty cart.
C17_DerivedAggregates ==
    /\ itemCount = TotalOf([i \in 1..Len(items) |-> items[i].quantity], 1..Len(items))
    /\ subtotal = TotalOf([i \in 1..Len(items) |-> items[i].price * items[i].quantity],
                          1..Len(items))
    /\ items = << >> => (itemCount = 0 /\ subtotal = 0)

\* A cart of two line items in two currencies with three units.
C17_Witness ==
    /\ Len(items) = 2
    /\ items[1].currency # items[2].currency
    /\ items[1].quantity + items[2].quantity = 3
    /\ itemCount = 3
    /\ subtotal = items[1].price * items[1].quantity + items[2].price * items[2].quantity

\* C20. Add frame: an Add of a variant the list does not hold appends the
\* supplied item as the last entry; an Add of a variant it holds keeps the
\* length; in both cases every earlier entry keeps its position and every
\* entry other than the matched one is unchanged.
C20_AddFrame ==
    rAct.type = "ADD_ITEM" =>
        LET hits == { i \in 1..Len(rPrev) :
                        /\ rPrev[i].productId = rAct.payload.productId
                        /\ rPrev[i].color = rAct.payload.color
                        /\ rPrev[i].size = rAct.payload.size } IN
        /\ hits = {} => rItems = Append(rPrev, rAct.payload)
        /\ hits # {} =>
              /\ Len(rItems) = Len(rPrev)
              /\ \A i \in 1..Len(rPrev) :
                    /\ i \notin hits => rItems[i] = rPrev[i]
                    /\ i \in hits =>
                          [rItems[i] EXCEPT !.quantity = 0] = [rPrev[i] EXCEPT !.quantity = 0]

\* An Add of a third variant was appended behind the two entries of the cart.
C20_Witness ==
    /\ rAct.type = "ADD_ITEM"
    /\ Len(rPrev) = 2
    /\ Len(rItems) = 3
    /\ rItems[3] = rAct.payload
    /\ rItems[1] = rPrev[1]
    /\ rItems[2] = rPrev[2]

(***************************************************************************)
(* SpecRoute: POST /api/checkout and SpensitAPI.createCheckout             *)
(*                                                                         *)
(* The handler is applied once to a request body drawn at the start, with  *)
(* any outcome of the upstream call.  A JavaScript value that may be of    *)
(* several types carries its type in `kind`; reading a property the body   *)
(* does not have yields undefined.  The entries of cart_items are records  *)
(* with exactly the keys the client sent.                                  *)
(***************************************************************************)

Undef == [kind |-> "undefined"]
Str(text) == [kind |-> "string", str |-> text]
Num(n) == [kind |-> "number", num |-> n]
Arr(seq) == [kind |-> "array", elems |-> seq]

\* Bound of the model: the longest cart_items and product_ids array received.
MaxRouteItems == 2

\* Entries a client may put into cart_items: two of the declared shape and
\* one that also carries a price.
RouteEntries ==
    { [product_id |-> "p1", color |-> "Black", size |-> NULL, quantity |-> 1],
      [product_id |-> "p2", color |-> NULL, size |-> "M", quantity |-> 2],
      [product_id |-> "p1", color |-> "Black", size |-> NULL, quantity |-> 1,
       price |-> 1] }

RECURSIVE SeqsOver(_, _)
\* The sequences of length n over the set S.
SeqsOver(S, n) ==
    IF n = 0 THEN { << >> }
    ELSE { Append(q, x) : q \in SeqsOver(S, n - 1), x \in S }

\* The bodies request.json() may yield, and the two ways it yields no object.
RouteBodies ==
    { [kind |-> "invalid"], [kind |-> "null"] }
    \cup { [kind |-> "object", cart_items |-> ci, product_ids |-> pi,
            currency |-> cu, price |-> pr] :
            ci \in {Undef, Str("abc")}
                     \cup { Arr(q) : q \in UNION { SeqsOver(RouteEntries, n) :
                                                    n \in 0..MaxRouteItems } },
            pi \in {Undef}
                     \cup { Arr(q) : q \in UNION { SeqsOver({"p1", "p2"}, n) :
                                                    n \in 0..MaxRouteItems } },
            cu \in {Undef, Str(""), Str("GBP")},
            pr \in {Undef, Num(5)} }

UpstreamOutcomes == {"ok", "http_error", "network_error"}

\* JavaScript truthiness of the values of the model.
jsTruthy(v) ==
    CASE v.kind = "undefined" -> FALSE
      [] v.kind = "string" -> v.str # ""
      [] v.kind = "number" -> v.num # 0
      [] OTHER -> TRUE

\* x && Array.isArray(x) && x.length > 0
nonEmptyArray(v) == jsTruthy(v) /\ v.kind = "array" /\ Len(v.elems) > 0

\* product_ids.map(id => ({product_id: id, color: null, size: null, quantity: 1}))
legacyItems(ids) ==
    [i \in 1..Len(ids) |->
        [product_id |-> ids[i], color |-> NULL, size |-> NULL, quantity |-> 1]]

\* A selection that prefers the legacy product_ids.
routeItemsLegacyFirst(body) ==
    IF nonEmptyArray(body.product_ids)
    THEN [ok |-> TRUE, cartItems |-> legacyItems(body.product_ids.elems)]
    ELSE IF nonEmptyArray(body.cart_items)
         THEN [ok |-> TRUE, cartItems |-> body.cart_items.elems]
         ELSE [ok |-> FALSE]

\* The if / else if / else of the handler that fills cartItems.
routeItems(body) ==
    IF nonEmptyArray(body.cart_items)
    THEN [ok |-> TRUE, cartItems |-> body.cart_items.elems]
    ELSE IF nonEmptyArray(body.product_ids)
         THEN [ok |-> TRUE, cartItems |-> legacyItems(body.product_ids.elems)]
         ELSE [ok |-> FALSE]

\* createCheckout: the payload whose JSON text is sent upstream.
createCheckoutPayload(cartItems, currency) ==
    IF jsTruthy(currency)
    THEN [cart_items |-> cartItems, currency |-> currency.str]
    ELSE [cart_items |-> cartItems]

\* The message of the error SpensitAPI.request throws.
upstreamError(outcome) ==
    IF outcome = "http_error"
    THEN "[SpensitAPI 500] API Error: 500 Internal Server Error"
    ELSE "[SpensitAPI] Request to /api/checkout failed: fetch failed"

NoResult == [done |-> FALSE]

\* What the handler did: its status, its error message or NULL, and the
\* payload of its upstream call if it made one.
Answer(status, error, called, upstream, outcome) ==
    [done |-> TRUE, status |-> status, error |-> error, called |-> called,
     upstream |-> upstream, outcome |-> outcome]

\* The handler for a body and an upstream outcome.
routePOST(body, outcome) ==
    IF body.kind = "invalid"
    THEN Answer(500, "Unexpected end of JSON input", FALSE, Undef, "none")
    ELSE IF body.kind = "null"
    THEN Answer(500, "Cannot read properties of null (reading 'cart_items')",
                FALSE, Undef, "none")
    ELSE IF ~routeItems(body).ok
    THEN Answer(400, "cart_items or product_ids is required and must be a non-empty array.",
                FALSE, Undef, "none")
    ELSE LET payload == createCheckoutPayload(routeItems(body).cartItems, body.currency) IN
         IF outcome = "ok"
         THEN Answer(200, NULL, TRUE, payload, outcome)
         ELSE Answer(500, upstreamError(outcome), TRUE, payload, outcome)

TInit ==
    /\ rtBody \in RouteBodies
    /\ rtResult = NoResult
    /\ RIdle
    /\ SIdle
    /\ MIdle
    /\ CIdle
    /\ XIdle
    /\ UIdle

POST ==
    /\ ~rtResult.done
    /\ \E outcome \in UpstreamOutcomes : rtResult' = routePOST(rtBody, outcome)
    /\ UNCHANGED <<rtBody, cvars, xvars, uvars, rvars, svars, mvars>>

TNext ==
    \/ POST

SpecRoute == TInit /\ [][TNext]_vars

C19_NoPricingForwarded ==
    (rtResult.done /\ rtResult.called) =>
        /\ DOMAIN rtResult.upstream \cap ForbiddenKeys = {}
        /\ \A i \in 1..Len(rtResult.upstream.cart_items) :
              DOMAIN rtResult.upstream.cart_items[i] \cap ForbiddenKeys = {}

(***************************************************************************)
(* Claims about the session's lifecycle, the drawer and the handoff states *)
(***************************************************************************)

\* A HYDRATE waits in the queue.
HydratePending(queue) == \E i \in 1..Len(queue) : queue[i].type = "HYDRATE"

\* C21. Clear and Hydrate: clearCart leaves the empty list whatever the list
\* was; the render of a HYDRATE leaves exactly the supplied list; a HYDRATE
\* is dispatched only by the startup effects of a session that has not
\* hydrated yet, and then alone; and the item list changes only in a step of
\* addItem, removeItem, updateQuantity, clearCart, in the render of a queued
\* HYDRATE or CLEAR_CART, or when a new session starts.
C21_ClearAndHydrate ==
    [][ /\ clearCart => items' = << >>
        /\ (Flush /\ HydratePending(pending)) =>
              (Len(pending) = 1 /\ items' = pending[1].payload)
        /\ (HydratePending(pending') /\ ~HydratePending(pending)) =>
              (phase = "mounting" /\ ~hydrated /\ Len(pending') = 1)
        /\ hydrated => ~HydratePending(pending)
        /\ items' # items =>
              (addItem \/ removeItem \/ updateQuantity \/ clearCart \/ Flush \/ Reload)
      ]_vars

\* A session has adopted the one-item list an earlier session stored.
C21_Witness ==
    /\ hydrated
    /\ phase = "ready"
    /\ pending = << >>
    /\ Len(items) = 1
    /\ storage = Entry(JSONstringify(items))

\* C23. Drawer flag: openDrawer raises the flag and closeDrawer drops it,
\* each leaving the item list and the stored content as they are; the cart
\* operations leave the flag as it is; a new session starts with the drawer
\* closed and its startup does not raise it.
C23_DrawerFlag ==
    [][ /\ openDrawer => (isDrawerOpen' /\ items' = items /\ storage' = storage)
        /\ closeDrawer => (~isDrawerOpen' /\ items' = items /\ storage' = storage)
        /\ \/ isDrawerOpen' = isDrawerOpen
           \/ ~(addItem \/ removeItem \/ updateQuantity \/ clearCart)
        /\ phase' = "mounting" => ~isDrawerOpen'
        /\ \/ ~isDrawerOpen'
           \/ ~(MountEffects \/ (Flush /\ HydratePending(pending)))
      ]_vars

\* The drawer is open in a session that hydrated a stored cart.
C23_Witness ==
    /\ isDrawerOpen
    /\ hydrated
    /\ Len(items) = 1
    /\ ~request.sent
    /\ checkoutError = NULL

\* C24. Checkout error message: after a non-2xx response the message is the
\* body's error field if the body parses and the field is non-empty, else
\* "Checkout failed (<status>)"; after a 2xx response that leads to no
\* redirect, and in every Failed state, the message is a non-empty string.
C24_ErrorMessage ==
    /\ (lastResponse.kind = "http" /\ ~lastResponse.ok) =>
          checkoutError =
            IF lastResponse.parses /\ lastResponse.error \notin {UNDEFINED, NULL, ""}
            THEN lastResponse.error
            ELSE "Checkout failed (" \o ToString(lastResponse.status) \o ")"
    /\ (lastResponse # NoResponse /\ location = NULL) =>
          (checkoutError # NULL /\ checkoutError # UNDEFINED /\ checkoutError # "")

\* A 500 answer whose body did not parse is reported with its status.
C24_Witness ==
    /\ lastResponse.kind = "http"
    /\ ~lastResponse.ok
    /\ ~lastResponse.parses
    /\ lastResponse.status = 500
    /\ checkoutError = "Checkout failed (500)"

\* The state of the handoff's state machine.
CheckoutState ==
    CASE location # NULL -> "Redirected"
      [] location = NULL /\ request.sent -> "Submitting"
      [] location = NULL /\ ~request.sent /\ Truthy(checkoutError) -> "Failed"
      [] OTHER -> "Idle"

\* C25. Checkout state machine: within a session the state changes only
\* Idle -> Submitting, Submitting -> Redirected, Submitting -> Failed and
\* Failed -> Submitting; a handled response leaves Submitting for Redirected
\* or Failed; in Failed the loading flag is down; in Redirected no control
\* starts a submission; and a request is sent only by a click on the
\* checkout button or on 'Try again'.
C25_StateMachine ==
    [][ /\ CheckoutState' # CheckoutState =>
              \/ Reload
              \/ <<CheckoutState, CheckoutState'>> \in
                    { <<"Idle", "Submitting">>, <<"Submitting", "Redirected">>,
                      <<"Submitting", "Failed">>, <<"Failed", "Submitting">> }
        /\ HandleResponse =>
              (CheckoutState = "Submitting" /\ CheckoutState' \in {"Redirected", "Failed"})
        /\ CheckoutState' = "Failed" => ~checkoutLoading'
        /\ CheckoutState = "Redirected" => (~checkoutEnabled /\ ~tryAgainShown)
        /\ (request'.sent /\ request' # request) =>
              ((ClickCheckout \/ ClickTryAgain) /\ CheckoutState \in {"Idle", "Failed"})
      ]_vars

\* A rejected fetch has left the handoff in Failed, ready for a retry.
C25_Witness ==
    /\ CheckoutState = "Failed"
    /\ lastResponse.kind = "network_error"
    /\ ~checkoutLoading
    /\ tryAgainShown

RECURSIVE FoldLeft(_, _)
\* The reducer folded over the queue from its first action to its last.
FoldLeft(state, queue) ==
    IF queue = << >> THEN state
    ELSE cartReducer(FoldLeft(state, SubSeq(queue, 1, Len(queue) - 1)), queue[Len(queue)])

\* The actions the session's operations dispatch.
CartActions ==
    { AddAction(CartItem(v, Catalog(v), q)) : v \in SessionVariants, q \in SessionQtyInputs }
    \cup { RemoveAction(v) : v \in SessionVariants }
    \cup { UpdateAction(v, q) : v \in SessionVariants, q \in SessionQtyInputs }
    \cup { ClearAction }

requestJson(body) ==
    [kind |-> "object",
     cart_items |-> Arr(body.cart_items),
     product_ids |-> Undef,
     currency |-> IF "currency" \in DOMAIN body THEN Str(body.currency) ELSE Undef,
     price |-> Undef]

\* C28. Currency hint: a submission for a non-empty cart carries the
\* currency of the first line item of the cart as it is at the click; the
\* route and the API client send that currency upstream unchanged, and send
\* no currency key when the request has none or an empty one.
C28_CurrencyHint ==
    [][ (~request.sent /\ request'.sent) =>
          /\ Len(items) > 0 =>
                /\ "currency" \in DOMAIN request'.body
                /\ request'.body.currency = items[1].currency
                /\ routePOST(requestJson(request'.body), "ok").called
                /\ routePOST(requestJson(request'.body), "ok").upstream.currency
                      = items[1].currency
          /\ \A cu \in {Undef, Str("")} :
                LET answer == routePOST([requestJson(request'.body) EXCEPT !.currency = cu],
                                        "ok") IN
                answer.called => "currency" \notin DOMAIN answer.upstream
      ]_vars

\* A request for a cart of two currencies is in flight with the first one.
C28_Witness ==
    /\ request.sent
    /\ Len(request.from) = 2
    /\ request.from[1].currency # request.from[2].currency
    /\ request.body.currency = request.from[1].currency

\* C30. Cart changes during an in-flight checkout: when a successful
\* response is handled, the list the post-checkout Clear empties is the list
\* the submitted payload was built from.
C30_ClearsWhatWasSubmitted ==
    [][ (request.sent /\ lastResponse' # NoResponse /\ location' # NULL) =>
            items = request.from
      ]_vars

(***************************************************************************)
(* SpecQuota: the session of Spec over a localStorage whose every write    *)
(* throws (quota exceeded, or storage not available at all)                *)
(***************************************************************************)

\* What the slot holds when the session starts: nothing, or the cart an
\* earlier session wrote while storage still took writes.
QuotaSlots ==
    {NoEntry}
      \cup { Entry(JSONstringify(<<CartItem(v, Catalog(v), 1)>>)) : v \in SessionVariants }

QInit ==
    /\ storageMode \in {"quota", "unavailable"}
    /\ storage \in QuotaSlots
    /\ phase = "mounting"
    /\ items = << >>
    /\ pending = << >>
    /\ hydrated = FALSE
    /\ isDrawerOpen = FALSE
    /\ comp \in {"CartDrawer", "CheckoutButton"}
    /\ checkoutLoading = FALSE
    /\ checkoutError = NULL
    /\ request = NoRequest
    /\ lastResponse = NoResponse
    /\ location = NULL
    /\ RIdle
    /\ SIdle
    /\ FIdle

SpecQuota == QInit /\ [][Next]_vars

Tabs == 1 .. 2

\* A render of the tab's queued updates that every tab showing the page follows.
XRenderSynced(t, queue) ==
    /\ xItems' = [u \in Tabs |->
                    IF u = t \/ xPhase[u] = "ready"
                    THEN reduceAll(xItems[t], queue) ELSE xItems[u]]
    /\ xStorage' = persistCart(xStorage, xItems'[t], FALSE)
    /\ xPending' = [xPending EXCEPT ![t] = << >>]
    /\ xActor' = t

\* A render of tab t: its reducer takes the queued updates and its persist
\* effect writes the tab's new list.
XRender(t, queue) ==
    /\ xItems' = [xItems EXCEPT ![t] = reduceAll(xItems[t], queue)]
    /\ xStorage' = persistCart(xStorage, xItems'[t], FALSE)
    /\ xPending' = [xPending EXCEPT ![t] = << >>]
    /\ xActor' = t

XInit ==
    /\ xStorage = NoEntry
    /\ xPhase = [t \in Tabs |-> "mounting"]
    /\ xItems = [t \in Tabs |-> << >>]
    /\ xPending = [t \in Tabs |-> << >>]
    /\ xActor = 0
    /\ RIdle
    /\ SIdle
    /\ MIdle
    /\ CIdle
    /\ TIdle
    /\ UIdle

\* The mount effects of a tab: the hydrate effect reads the slot as it is
\* now, the persist effect writes the tab's initial [].
XMountEffects ==
    \E t \in Tabs :
        /\ xPhase[t] = "mounting"
        /\ LET stored == loadCart(xStorage, FALSE) IN
           xPending' = [xPending EXCEPT ![t] =
                           IF hydrateEffect(stored) = "hydrated"
                           THEN <<HydrateAction(AsItems(stored))>>
                           ELSE << >>]
        /\ xStorage' = persistCart(xStorage, xItems[t], FALSE)
        /\ xPhase' = [xPhase EXCEPT ![t] =
                         IF xPending'[t] = << >> THEN "ready" ELSE "hydrating"]
        /\ xActor' = t
        /\ UNCHANGED <<xItems, rvars, svars, mvars, cvars, tvars, uvars>>

\* The render of the tab's HYDRATE.
XFlush ==
    \E t \in Tabs :
        /\ xPhase[t] = "hydrating"
        /\ XRender(t, xPending[t])
        /\ xPhase' = [xPhase EXCEPT ![t] = "ready"]
        /\ UNCHANGED <<rvars, svars, mvars, cvars, tvars, uvars>>

\* A dispatch from a click handler of tab t.
XDispatch(t, action) ==
    /\ xPhase[t] = "ready"
    /\ XRender(t, Append(xPending[t], action))
    /\ QtyInWindow(xItems'[t])
    /\ UNCHANGED <<xPhase, rvars, svars, mvars, cvars, tvars, uvars>>

XAddItem ==
    \E t \in Tabs, v \in SessionVariants :
        /\ xPhase[t] = "ready"
        /\ XDispatch(t, AddAction(CartItem(v, Catalog(v), 1)))

XRemoveItem ==
    \E t \in Tabs, v \in SessionVariants :
        /\ xPhase[t] = "ready"
        /\ XDispatch(t, RemoveAction(v))

XUpdateQuantity ==
    \E t \in Tabs, v \in SessionVariants, q \in 1 .. MaxQty :
        /\ xPhase[t] = "ready"
        /\ XDispatch(t, UpdateAction(v, q))

XClearCart ==
    \E t \in Tabs :
        /\ xPhase[t] = "ready"
        /\ XDispatch(t, ClearAction)

\* The tab is reloaded, or closed and opened again.
XReload ==
    \E t \in Tabs :
        /\ xPhase[t] # "mounting"
        /\ xPhase' = [xPhase EXCEPT ![t] = "mounting"]
        /\ xItems' = [xItems EXCEPT ![t] = << >>]
        /\ xPending' = [xPending EXCEPT ![t] = << >>]
        /\ xActor' = t
        /\ UNCHANGED <<xStorage, rvars, svars, mvars, cvars, tvars, uvars>>

XNext ==
    \/ XMountEffects
    \/ XFlush
    \/ XAddItem
    \/ XRemoveItem
    \/ XUpdateQuantity
    \/ XClearCart
    \/ XReload

SpecTabs == XInit /\ [][XNext]_vars

\* C27. Cross-tab last-writer-wins: every step of a tab other than its
\* reload writes the slot, and what it leaves there is the whole list of
\* that tab (never a merge with what the other tab stored); a reload writes
\* nothing; no step of a tab changes the other tab's in-memory list or
\* queued hydration.
C27_LastWriterWins ==
    [][ /\ xActor' \in Tabs
        /\ xPhase'[xActor'] # "mounting" =>
              xStorage' = Entry(JSONstringify(xItems'[xActor']))
        /\ xPhase'[xActor'] = "mounting" => xStorage' = xStorage
        /\ \A u \in Tabs \ {xActor'} :
              /\ xItems'[u] = xItems[u]
              /\ xPending'[u] = xPending[u]
              /\ xPhase'[u] = xPhase[u]
      ]_vars

\* Both tabs are ready; tab 2 wrote last, and a line item tab 1 holds in
\* memory (and had written) is absent from the stored list.
C27_Witness ==
    /\ xActor = 2
    /\ xPhase = [t \in Tabs |-> "ready"]
    /\ xItems[2] # << >>
    /\ xStorage = Entry(JSONstringify(xItems[2]))
    /\ \E i \in 1..Len(xItems[1]) :
          \A j \in 1..Len(xItems[2]) : VariantOf(xItems[2][j]) # VariantOf(xItems[1][i])

(***************************************************************************)
(* SpecUI: the session driven by the storefront's controls only: the       *)
(* product page (VariantSelector, AddToCartButton), the cart steppers and  *)
(* Remove buttons, the drawer.  The stock of a selection is whatever the   *)
(* product data says, any integer.                                         *)
(***************************************************************************)

\* Bound of the model: the timeouts of handleAdd that may wait at one time.
MaxTimers == 1

NoPage == "none"
UIProducts == { v.productId : v \in SessionVariants }
\* The variant a product's page offers: its colours and sizes, if it has any.
PageVariant(p) == CHOOSE v \in SessionVariants : v.productId = p

\* availableStock values of the product data.
Stocks == (0 - 1) .. MaxQty

\* The slot at the start: empty, or a cart an earlier session wrote.
UISlots ==
    {NoEntry}
      \cup { Entry(JSONstringify(<<CartItem(v, Catalog(v), q)>>)) :
                v \in SessionVariants, q \in 1 .. MaxQty }

\* A quantity ceiling that is the stock itself.
maxQtyRaw(availableStock) == availableStock

\* const maxQty = availableStock > 0 ? availableStock : 1
maxQty(availableStock) == IF availableStock > 0 THEN availableStock ELSE 1

\* const adjustedQty = Math.min(quantity, maxQty)
adjustedQty(quantity, availableStock) ==
    IF quantity < maxQty(availableStock) THEN quantity ELSE maxQty(availableStock)

UInit ==
    /\ storage \in UISlots
    /\ storageMode = "ok"
    /\ phase = "mounting"
    /\ items = << >>
    /\ pending = << >>
    /\ hydrated = FALSE
    /\ isDrawerOpen = FALSE
    /\ comp = "CartDrawer"
    /\ checkoutLoading = FALSE
    /\ checkoutError = NULL
    /\ request = NoRequest
    /\ lastResponse = NoResponse
    /\ location = NULL
    /\ uProduct = NoPage
    /\ uColor = NULL
    /\ uSize = NULL
    /\ uStock = 0
    /\ uQuantity = 1
    /\ uError = NULL
    /\ uTimers = 0
    /\ RIdle
    /\ SIdle
    /\ CIdle
    /\ TIdle
    /\ XIdle

\* A product page is opened: ProductDetailClient and AddToCartButton mount
\* with nothing selected and quantity 1.
UIOpenProduct ==
    /\ Interactive
    /\ uProduct' \in UIProducts
    /\ uColor' = NULL
    /\ uSize' = NULL
    /\ uStock' \in Stocks
    /\ uQuantity' = 1
    /\ uError' = NULL
    /\ UNCHANGED <<uTimers, mvars, rvars, svars, cvars, tvars, xvars>>

\* A colour swatch is clicked: selected, or deselected when it was selected;
\* availableStock is computed anew.
UISelectColor ==
    /\ Interactive
    /\ uProduct # NoPage
    /\ PageVariant(uProduct).color # NULL
    /\ uColor' = IF uColor = NULL THEN PageVariant(uProduct).color ELSE NULL
    /\ uStock' \in Stocks
    /\ UNCHANGED <<uProduct, uSize, uQuantity, uError, uTimers,
                   mvars, rvars, svars, cvars, tvars, xvars>>

UISelectSize ==
    /\ Interactive
    /\ uProduct # NoPage
    /\ PageVariant(uProduct).size # NULL
    /\ uSize' = IF uSize = NULL THEN PageVariant(uProduct).size ELSE NULL
    /\ uStock' \in Stocks
    /\ UNCHANGED <<uProduct, uColor, uQuantity, uError, uTimers,
                   mvars, rvars, svars, cvars, tvars, xvars>>

\* The minus button of the quantity selector (disabled at quantity <= 1).
UIQtyMinus ==
    /\ Interactive
    /\ uProduct # NoPage
    /\ ~(uQuantity <= 1)
    /\ uQuantity' = IF 1 > uQuantity - 1 THEN 1 ELSE uQuantity - 1
    /\ UNCHANGED <<uProduct, uColor, uSize, uStock, uError, uTimers,
                   mvars, rvars, svars, cvars, tvars, xvars>>

\* The plus button of the quantity selector (disabled at quantity >= maxQty).
UIQtyPlus ==
    /\ Interactive
    /\ uProduct # NoPage
    /\ ~(uQuantity >= maxQty(uStock))
    /\ uQuantity' = IF maxQty(uStock) < uQuantity + 1 THEN maxQty(uStock) ELSE uQuantity + 1
    /\ UNCHANGED <<uProduct, uColor, uSize, uStock, uError, uTimers,
                   mvars, rvars, svars, cvars, tvars, xvars>>

\* The cart item handleAdd builds from the page's selection.
uiCartItem ==
    CartItem([productId |-> uProduct, color |-> uColor, size |-> uSize],
             Catalog(PageVariant(uProduct)),
             adjustedQty(uQuantity, uStock))

\* handleAdd, behind a button that is disabled when availableStock === 0.
UIHandleAdd ==
    /\ Interactive
    /\ uProduct # NoPage
    /\ uStock # 0
    /\ IF PageVariant(uProduct).color # NULL /\ uColor = NULL
       THEN /\ uError' = "Please select a color."
            /\ UNCHANGED <<uTimers, cartvars>>
       ELSE IF PageVariant(uProduct).size # NULL /\ uSize = NULL
       THEN /\ uError' = "Please select a size."
            /\ UNCHANGED <<uTimers, cartvars>>
       ELSE /\ uError' = NULL
            /\ uTimers < MaxTimers
            /\ Render(Append(pending, AddAction(uiCartItem)))
            /\ QtyInWindow(items')
            /\ uTimers' = uTimers + 1
            /\ UNCHANGED <<storageMode, phase>>
    /\ UNCHANGED <<uProduct, uColor, uSize, uStock, uQuantity,
                   checkoutvars, rvars, svars, cvars, tvars, xvars>>

\* The timeout of handleAdd fires: openDrawer(), outside any click.
UITimerFires ==
    /\ Interactive
    /\ uTimers > 0
    /\ pending' = Append(pending, SetDrawer(TRUE))
    /\ uTimers' = uTimers - 1
    /\ UNCHANGED <<storage, storageMode, phase, items, hydrated, isDrawerOpen,
                   uProduct, uColor, uSize, uStock, uQuantity, uError,
                   checkoutvars, rvars, svars, cvars, tvars, xvars>>

\* The minus button of a line item (disabled at quantity <= 1).
UIStepDown ==
    /\ Interactive
    /\ \E i \in 1..Len(items) :
          /\ ~(items[i].quantity <= 1)
          /\ Dispatch(UpdateAction(VariantOf(items[i]), items[i].quantity - 1))

\* The plus button of a line item.
UIStepUp ==
    /\ Interactive
    /\ \E i \in 1..Len(items) :
          Dispatch(UpdateAction(VariantOf(items[i]), items[i].quantity + 1))

\* The Remove button of a line item.
UIRemove ==
    /\ Interactive
    /\ \E i \in 1..Len(items) : Dispatch(RemoveAction(VariantOf(items[i])))

\* The page is reloaded: every component starts again over the same storage.
UIReload ==
    /\ phase' = "mounting"
    /\ items' = << >>
    /\ pending' = << >>
    /\ hydrated' = FALSE
    /\ isDrawerOpen' = FALSE
    /\ uProduct' = NoPage
    /\ uColor' = NULL
    /\ uSize' = NULL
    /\ uStock' = 0
    /\ uQuantity' = 1
    /\ uError' = NULL
    /\ uTimers' = 0
    /\ UNCHANGED <<storage, storageMode, checkoutvars, rvars, svars, cvars, tvars, xvars>>

UNext ==
    \/ MountEffects
    \/ Flush
    \/ UIOpenProduct
    \/ UISelectColor
    \/ UISelectSize
    \/ UIQtyMinus
    \/ UIQtyPlus
    \/ UIHandleAdd
    \/ UITimerFires
    \/ UIStepDown
    \/ UIStepUp
    \/ UIRemove
    \/ openDrawer
    \/ closeDrawer
    \/ UIReload

SpecUI == UInit /\ [][UNext]_vars

\* C29. UI-issued quantities are bounded: a step in which handleAdd
\* dispatches an Add is taken with every required variant selected and a
\* stock other than zero, and adds a quantity q with
\* 1 <= q <= max(availableStock, 1); a line's quantity goes down by a stepper
\* only from a quantity above 1, and by one; and every quantity of every
\* list the session shows is at least 1.
C29_UIQuantities ==
    [][ /\ \A i \in 1..Len(items') : items'[i].quantity >= 1
        /\ uTimers' > uTimers =>
              /\ uStock # 0
              /\ PageVariant(uProduct).color # NULL => uColor # NULL
              /\ PageVariant(uProduct).size # NULL => uSize # NULL
              /\ \E q \in 1 .. (IF uStock > 1 THEN uStock ELSE 1) :
                    items' = reduceAll(items,
                                Append(pending,
                                       AddAction([uiCartItem EXCEPT !.quantity = q])))
        /\ (Interactive /\ Len(items') = Len(items)) =>
              \A i \in 1..Len(items) :
                  items'[i].quantity < items[i].quantity =>
                      /\ items[i].quantity > 1
                      /\ items'[i].quantity = items[i].quantity - 1
      ]_vars

\* handleAdd has added a second line to a hydrated cart while the selected
\* quantity was above what the selection's stock allows.
C29_Witness ==
    /\ hydrated
    /\ uTimers > 0
    /\ uQuantity > maxQty(uStock)
    /\ Len(items) = 2
    /\ \E i \in 1..Len(items) :
          /\ VariantOf(items[i]) = [productId |-> uProduct, color |-> uColor, size |-> uSize]
          /\ items[i].quantity = adjustedQty(uQuantity, uStock)

====
